---- MODULE Spec2Model ----
(***************************************************************************)
(* A model of ext/rugged/rugged_remote.c: the Ruby binding of libgit2's    *)
(* remotes (Remote.new / add / lookup / each, url=, push_url=, ls, fetch   *)
(* and the callbacks fetch hands to the transport).                        *)
(*                                                                         *)
(* Every handler is cut into steps at the calls that leave the file: a     *)
(* libgit2 call, or a yield to Ruby code under rb_protect.  libgit2 and    *)
(* the Ruby blocks are the environment: their results are chosen with \E.  *)
(***************************************************************************)
EXTENDS Integers, Sequences, FiniteSets, TLC

(***************************************************************************)
(* Bounds of the model.                                                    *)
(***************************************************************************)
MaxRefspecs == 2    \* fetch refspecs configured on the caller's remote
MaxOverride == 2    \* length of the refspec array passed to fetch
MaxCallbacks == 2   \* callback invocations the transport makes in a fetch
MaxHeads == 2       \* heads a remote advertises to ls
MaxRemotes == 2     \* remotes configured in the repository

(***************************************************************************)
(* libgit2 error codes and Ruby's unwind states.                           *)
(***************************************************************************)
GIT_OK == 0
GIT_ERROR == -1
GIT_ENOTFOUND == -3

TAG_RAISE == 6
\* every state rb_protect can report for a block that did not finish
UnwindStates == 1..8

\* Qnil is 8 on builds with flonum VALUEs and 4 on the others
QnilValues == {4, 8}

(***************************************************************************)
(* Ruby values.                                                            *)
(***************************************************************************)
NoExc == <<"", "">>
TypeError == <<"TypeError", "wrong argument type">>
InvalidUrl == <<"ArgumentError", "Invalid URL format">>
NullByte == <<"ArgumentError", "string contains null byte">>
InvalidCredType == <<"ArgumentError", "Invalid credential type">>
BadCredentials == <<"ArgumentError", "Expected a Rugged::Credentials type, a Proc or an object that responds to call">>
BadCallback == <<"ArgumentError", "Expected a Proc or an object that responds to call">>
RuggedError(msg) == <<"Rugged::Error", msg>>
CallbackFailure(cb) == <<"callback", cb>>

\* how a handler ends: it returns a value, or an exception unwinds it
NoResult == [kind |-> "none", state |-> 0, exc |-> NoExc, value |-> ""]
Return(value) == [kind |-> "return", state |-> 0, exc |-> NoExc, value |-> value]
Raise(state, exc) == [kind |-> "raise", state |-> state, exc |-> exc, value |-> ""]
\* rb_raise unwinds with TAG_RAISE
rb_raise(exc) == Raise(TAG_RAISE, exc)

\* the objects an option of fetch can hold
RbNil == [class |-> "NilClass", wf |-> TRUE]
RbProc == [class |-> "Proc", wf |-> TRUE]
RbObject == [class |-> "Object", wf |-> TRUE]
\* wf: the credential's fields have the types rugged__extract_cred wants
CredPlaintext(wf) == [class |-> "Rugged::Credentials::Plaintext", wf |-> wf]
CredSshKey(wf) == [class |-> "Rugged::Credentials::SshKey", wf |-> wf]
CredDefault == [class |-> "Rugged::Credentials::Default", wf |-> TRUE]

CredClasses ==
  { "Rugged::Credentials::Plaintext", "Rugged::Credentials::SshKey",
    "Rugged::Credentials::Default" }
RTESTobj(v) == v.class # "NilClass"
RespondsToCall(v) == v.class = "Proc"

\* strings that reach the refspec parameters
RefspecHeads == "+refs/heads/*:refs/remotes/origin/*"
RefspecTags == "refs/tags/*:refs/tags/*"
RefspecBad == "refs/heads/*:refs/remotes/origin"
RefspecNul == "refs/heads/a<NUL>b"
NotAString == ":refs"
ValidRefspecs == {RefspecHeads, RefspecTags}
OverrideValues ==
  {RefspecHeads, RefspecTags, RefspecBad, RefspecNul, NotAString}

IsString(v) == v # NotAString
\* StringValueCStr raises ArgumentError for a string with an embedded NUL
StringValueCStr(s) ==
  IF s \in {RefspecNul, "git://host/a<NUL>b"}
  THEN [raised |-> TRUE, exc |-> NullByte, cstr |-> ""]
  ELSE [raised |-> FALSE, exc |-> NoExc, cstr |-> s]

SeqsUpTo(S, n) == UNION { [1..k -> S] : k \in 0..n }

\* RTEST(v) is ((VALUE)(v) & ~Qnil) != 0; Qnil is a single bit
RTEST(v, qnil) == (v - ((v \div qnil) % 2) * qnil) # 0

\* rugged_exception_check raises the pending libgit2 error for a negative
\* code; otherwise the handler goes on and ends with `otherwise`
rugged_exception_check(err, msg, otherwise) ==
  IF err < 0 THEN rb_raise(RuggedError(msg)) ELSE otherwise

(***************************************************************************)
(* State.  pc, error, i, exception and ret are the locals of the handler   *)
(* that is running; the other variables are the objects it works on.       *)
(***************************************************************************)
VARIABLES
  pc,            \* position in the running handler
  ret,           \* how the handler ended: return value or raised exception
  error,         \* int error
  giterr,        \* libgit2's pending error message (giterr_last)
  i,             \* loop index
  exception,     \* int exception of ls and each (the rb_protect state)
  errinfo,       \* the Ruby exception being unwound ($!)
  remote,        \* the git_remote behind self
  remote_before, \* remote as it was when the handler was entered
  rb_refspecs,   \* fetch: the refspecs argument
  callbacks,     \* fetch: git_remote_callbacks callbacks
  payload,       \* fetch: struct rugged_remote_cb_payload payload
  tmp_remote,    \* fetch: the temporary in-memory remote
  frees,         \* fetch: git_remote_free calls made on tmp_remote
  phase,         \* fetch: where git_remote_fetch is
  ncb,           \* fetch: callback invocations made by the transport
  challenge,     \* fetch: the credential challenge in flight
  aborted_by,    \* fetch: the callback failure that made the transfer fail
  connects,      \* ls: successful git_remote_connect calls
  disconnects,   \* ls: git_remote_disconnect calls
  heads,         \* ls: what git_remote_ls stored in heads / heads_len
  delivered,     \* ls, each: the values yielded to the block, in order
  repo,          \* the remotes configured in the repository, in order
  remotes,       \* each: the git_strarray of names
  loads,         \* each: names passed to git_remote_load, in order
  call,          \* the handler that was called and its arguments
  repo_before,   \* repo as it was when the handler was entered
  lib_calls      \* libgit2 storage or transport calls made by the handler

vars ==
  << pc, ret, error, giterr, i, exception, errinfo, remote, remote_before,
     rb_refspecs, callbacks, payload, tmp_remote, frees, phase, ncb,
     challenge, aborted_by, connects, disconnects, heads, delivered, repo,
     remotes, loads, call, repo_before, lib_calls >>

fetchVars ==
  << rb_refspecs, callbacks, payload, tmp_remote, frees, phase, ncb,
     challenge, aborted_by >>
lsVars == << connects, disconnects, heads >>
eachVars == << remotes, loads >>
callVars == << call, repo_before >>

(***************************************************************************)
(* Initial values of the handlers' locals.                                 *)
(***************************************************************************)
NoRefspecs == [given |-> FALSE, array |-> TRUE, ary |-> << >>]
\* GIT_REMOTE_CALLBACKS_INIT: no callback installed
NoCallbacks ==
  [credentials |-> "none", progress |-> FALSE, transfer_progress |-> FALSE,
   update_tips |-> FALSE]
\* struct rugged_remote_cb_payload payload = { Qnil, Qnil, Qnil, Qnil, 0 }
EmptyPayload ==
  [credentials |-> RbNil, progress |-> RbNil, transfer_progress |-> RbNil,
   update_tips |-> RbNil, exception |-> 0]
\* tmp_remote before git_remote_create_inmemory has made it
NoRemote ==
  [created |-> FALSE, url |-> "", autotag |-> "", fetch_refspecs |-> << >>,
   callbacks |-> NoCallbacks]
NoChallenge ==
  [made |-> FALSE, allowed_types |-> {}, rb_cred |-> RbNil, cred |-> "unset",
   rc |-> 0]
NoAbort == [cb |-> "", state |-> 0, exc |-> NoExc]
NoCall == [op |-> "", is_repo |-> TRUE, name |-> "", url |-> ""]

(***************************************************************************)
(* fetch: the options.                                                     *)
(***************************************************************************)
NoOptions ==
  [given |-> FALSE, credentials |-> RbNil, progress |-> RbNil,
   transfer_progress |-> RbNil, update_tips |-> RbNil]
Options(c, p, t, u) ==
  [given |-> TRUE, credentials |-> c, progress |-> p,
   transfer_progress |-> t, update_tips |-> u]

\* the option hashes fetch is called with
FetchOptions ==
  {NoOptions, Options(RbNil, RbNil, RbNil, RbNil)}
  \cup { Options(c, RbNil, RbNil, RbNil) :
           c \in { CredPlaintext(TRUE), CredPlaintext(FALSE), CredSshKey(TRUE),
                   CredDefault, RbProc, RbObject } }
  \cup { Options(RbNil, p, RbNil, RbNil) : p \in {RbProc, RbObject} }
  \cup { Options(RbNil, RbNil, t, RbNil) : t \in {RbProc, RbObject} }
  \cup { Options(RbNil, RbNil, RbNil, u) : u \in {RbProc, RbObject} }
  \cup { Options(c, RbProc, RbProc, RbProc) : c \in {RbProc, CredDefault} }

\* parse_fetch_options: the callbacks and the payload the options install, or
\* the ArgumentError of the first option that is neither nil nor usable
parse_fetch_options(rb_options_hash) ==
  LET val_c == rb_options_hash.credentials
      val_p == rb_options_hash.progress
      val_t == rb_options_hash.transfer_progress
      val_u == rb_options_hash.update_tips
      credentials ==
        IF ~RTESTobj(val_c) THEN "none"
        ELSE IF val_c.class \in CredClasses THEN "static"
        ELSE IF RespondsToCall(val_c) THEN "dynamic"
        ELSE "invalid"
      bad(val) == RTESTobj(val) /\ ~RespondsToCall(val)
      exc ==
        IF ~rb_options_hash.given THEN NoExc
        ELSE IF credentials = "invalid" THEN BadCredentials
        ELSE IF bad(val_p) \/ bad(val_t) \/ bad(val_u) THEN BadCallback
        ELSE NoExc
  IN  IF ~rb_options_hash.given
      THEN [raised |-> FALSE, exc |-> NoExc, callbacks |-> NoCallbacks,
            payload |-> EmptyPayload]
      ELSE [raised |-> exc # NoExc, exc |-> exc,
            callbacks |->
              [credentials |-> credentials, progress |-> RTESTobj(val_p),
               transfer_progress |-> RTESTobj(val_t),
               update_tips |-> RTESTobj(val_u)],
            payload |->
              [credentials |-> val_c, progress |-> val_p,
               transfer_progress |-> val_t, update_tips |-> val_u,
               exception |-> 0]]

\* the refspecs argument: absent, not an Array, or an Array of Ruby values
RefspecArgs ==
  {NoRefspecs, [given |-> TRUE, array |-> FALSE, ary |-> << >>]}
  \cup { [given |-> TRUE, array |-> TRUE, ary |-> a] :
           a \in SeqsUpTo(OverrideValues, MaxOverride) }

\* lines 815-820: Check_Type of the array and of each of its entries
CheckRefspecTypes(refs) ==
  IF refs.given /\ (~refs.array \/ \E k \in 1..Len(refs.ary) : ~IsString(refs.ary[k]))
  THEN [raised |-> TRUE, exc |-> TypeError]
  ELSE [raised |-> FALSE, exc |-> NoExc]

(***************************************************************************)
(* fetch: entry up to the creation of the temporary remote.                *)
(***************************************************************************)
rb_git_remote_fetch_enter ==
  /\ pc = "fetch"
  /\ \E rb_options \in FetchOptions, refs \in RefspecArgs :
       LET opts == parse_fetch_options(rb_options)
           types == CheckRefspecTypes(refs)
       IN  IF opts.raised \/ types.raised
           THEN /\ ret' = rb_raise(IF opts.raised THEN opts.exc ELSE types.exc)
                /\ pc' = "done"
                /\ UNCHANGED << rb_refspecs, callbacks, payload >>
           ELSE /\ rb_refspecs' = refs
                /\ callbacks' = opts.callbacks
                /\ payload' = opts.payload
                /\ pc' = "create"
                /\ ret' = ret
  /\ remote_before' = remote
  /\ UNCHANGED << error, giterr, i, exception, errinfo, remote, tmp_remote,
                  frees, phase, ncb, challenge, aborted_by, lsVars, delivered,
                  repo, eachVars, callVars, lib_calls >>

\* git_remote_create_inmemory, git_remote_set_autotag, git_remote_set_callbacks
rb_git_remote_fetch_create ==
  /\ pc = "create"
  /\ \E created \in BOOLEAN, installed \in BOOLEAN :
       IF ~created
       THEN /\ error' = GIT_ERROR
            /\ giterr' = "create"
            /\ ret' = rugged_exception_check(GIT_ERROR, "create", ret)
            /\ pc' = "done"
            /\ UNCHANGED << tmp_remote, i >>
       ELSE /\ tmp_remote' =
                 [created |-> TRUE, url |-> remote.url,
                  autotag |-> remote.autotag, fetch_refspecs |-> << >>,
                  callbacks |-> IF installed THEN callbacks ELSE NoCallbacks]
            /\ error' = IF installed THEN GIT_OK ELSE GIT_ERROR
            /\ giterr' = IF installed THEN giterr ELSE "callbacks"
            /\ pc' = IF installed THEN "refspecs" ELSE "cleanup"
            /\ i' = 0
            /\ ret' = ret
  /\ lib_calls' = lib_calls + 1
  /\ UNCHANGED << exception, errinfo, remote, remote_before, rb_refspecs,
                  callbacks, payload, frees, phase, ncb, challenge,
                  aborted_by, lsVars, delivered, repo, eachVars, callVars >>

(***************************************************************************)
(* fetch: the refspecs of the temporary remote.                            *)
(***************************************************************************)
AddFetchInFront(rm, cstr) ==
  IF cstr \in ValidRefspecs
  THEN [error |-> GIT_OK,
        remote |-> [rm EXCEPT !.fetch_refspecs = << cstr >> \o @]]
  ELSE [error |-> GIT_ERROR, remote |-> rm]

\* git_remote_add_fetch parses the refspec and appends it to the remote
git_remote_add_fetch(rm, cstr) ==
  IF cstr \in ValidRefspecs
  THEN [error |-> GIT_OK,
        remote |-> [rm EXCEPT !.fetch_refspecs = Append(@, cstr)]]
  ELSE [error |-> GIT_ERROR, remote |-> rm]

\* git_remote_get_fetch_refspecs: a copy of the remote's refspec strings
git_remote_get_fetch_refspecs(rm) ==
  [k \in 1..Len(rm.fetch_refspecs) |-> rm.fetch_refspecs[k]]

\* git_remote_set_fetch_refspecs replaces the remote's fetch refspecs
git_remote_set_fetch_refspecs(rm, array) ==
  [rm EXCEPT !.fetch_refspecs = array]

InstallOverrideOnCaller(rem, tmp, cstr) ==
  LET r == git_remote_add_fetch(rem, cstr)
  IN  [error |-> r.error, remote |-> r.remote, tmp_remote |-> tmp]

\* line 836: the override refspec goes to tmp_remote, never to remote
InstallOverride(rem, tmp, cstr) ==
  LET r == git_remote_add_fetch(tmp, cstr)
  IN  [error |-> r.error, remote |-> rem, tmp_remote |-> r.remote]

\* lines 842-846: tmp_remote gets a copy of remote's fetch refspecs
CopyRefspecs(rem, tmp) ==
  [remote |-> rem,
   tmp_remote |->
     git_remote_set_fetch_refspecs(tmp, git_remote_get_fetch_refspecs(rem))]

\* one iteration of the loop of lines 834-837
rb_git_remote_fetch_add_override ==
  /\ pc = "refspecs"
  /\ rb_refspecs.given
  /\ error = GIT_OK /\ i < Len(rb_refspecs.ary)
  /\ LET c == StringValueCStr(rb_refspecs.ary[i + 1])
         r == InstallOverride(remote, tmp_remote, c.cstr)
     IN  IF c.raised
         THEN \* the ArgumentError leaves the function at once
              /\ ret' = rb_raise(c.exc)
              /\ pc' = "done"
              /\ UNCHANGED << error, giterr, i, remote, tmp_remote, lib_calls >>
         ELSE /\ error' = r.error
              /\ giterr' = IF r.error # GIT_OK THEN "refspec" ELSE giterr
              /\ remote' = r.remote
              /\ tmp_remote' = r.tmp_remote
              /\ i' = i + 1
              /\ lib_calls' = lib_calls + 1
              /\ UNCHANGED << ret, pc >>
  /\ UNCHANGED << exception, errinfo, remote_before, rb_refspecs, callbacks,
                  payload, frees, phase, ncb, challenge, aborted_by, lsVars,
                  delivered, repo, eachVars, callVars >>

\* the loop is left: line 839, then git_remote_fetch is entered
rb_git_remote_fetch_override_done ==
  /\ pc = "refspecs"
  /\ rb_refspecs.given
  /\ ~(error = GIT_OK /\ i < Len(rb_refspecs.ary))
  /\ pc' = IF error # GIT_OK THEN "cleanup" ELSE "transfer"
  /\ phase' = IF error # GIT_OK THEN phase ELSE "connect"
  /\ UNCHANGED << ret, error, giterr, i, exception, errinfo, remote,
                  remote_before, rb_refspecs, callbacks, payload, tmp_remote,
                  frees, ncb, challenge, aborted_by, lsVars, delivered, repo,
                  eachVars, callVars, lib_calls >>

\* lines 841-850.  When git_remote_get_fetch_refspecs fails it has not written
\* refspecs, and git_strarray_free works on an uninitialized git_strarray:
\* it may free nothing, or bring the process down.
rb_git_remote_fetch_copy_refspecs ==
  /\ pc = "refspecs"
  /\ ~rb_refspecs.given
  /\ \E got \in BOOLEAN, set \in BOOLEAN, harmless \in BOOLEAN :
       LET r == CopyRefspecs(remote, tmp_remote)
       IN  IF got /\ set
           THEN /\ tmp_remote' = r.tmp_remote
                /\ remote' = r.remote
                /\ pc' = "transfer"
                /\ phase' = "connect"
                /\ UNCHANGED << error, giterr >>
           ELSE /\ error' = GIT_ERROR
                /\ giterr' = "copy"
                /\ pc' = IF got \/ harmless THEN "cleanup" ELSE "crashed"
                /\ UNCHANGED << tmp_remote, remote, phase >>
  /\ lib_calls' = lib_calls + 1
  /\ UNCHANGED << ret, i, exception, errinfo, remote_before, rb_refspecs,
                  callbacks, payload, frees, ncb, challenge, aborted_by,
                  lsVars, delivered, repo, eachVars, callVars >>

(***************************************************************************)
(* fetch: the callbacks handed to the transport.                           *)
(***************************************************************************)
GIT_CREDTYPE_USERPASS_PLAINTEXT == "GIT_CREDTYPE_USERPASS_PLAINTEXT"
GIT_CREDTYPE_SSH_KEY == "GIT_CREDTYPE_SSH_KEY"
GIT_CREDTYPE_DEFAULT == "GIT_CREDTYPE_DEFAULT"
CredTypes ==
  {GIT_CREDTYPE_USERPASS_PLAINTEXT, GIT_CREDTYPE_SSH_KEY, GIT_CREDTYPE_DEFAULT}
\* allowed_types & bit
HasType(allowed_types, bit) == bit \in allowed_types

\* what a block called under rb_protect does: it finishes (state 0) and gives
\* a value, or it is left by an exception, a throw, a break or a fatal error
Finished(value) == [state |-> 0, exc |-> NoExc, value |-> value]
Unwound(state, cb) ==
  [state |-> state, exc |-> CallbackFailure(cb), value |-> RbNil]
BlockOutcomes(cb) ==
  {Finished(RbNil)} \cup { Unwound(s, cb) : s \in UnwindStates }
\* the :credentials proc can give back anything
ResolverOutcomes ==
  { Finished(v) : v \in { CredPlaintext(TRUE), CredSshKey(TRUE),
                          CredSshKey(FALSE), CredDefault, RbNil } }
  \cup { Unwound(s, "credentials") : s \in UnwindStates }

\* rugged__extract_cred: the git_cred built from rb_cred, or the exception
rugged__extract_cred(rb_cred, allowed_types) ==
  LET raise(exc) == [raised |-> TRUE, exc |-> exc, cred |-> "unset"]
      made(kind) == [raised |-> FALSE, exc |-> NoExc, cred |-> kind]
  IN  IF rb_cred.class = "Rugged::Credentials::Plaintext"
      THEN IF ~HasType(allowed_types, GIT_CREDTYPE_USERPASS_PLAINTEXT)
           THEN raise(InvalidCredType)
           ELSE IF ~rb_cred.wf THEN raise(TypeError)
           ELSE made(GIT_CREDTYPE_USERPASS_PLAINTEXT)
      ELSE IF rb_cred.class = "Rugged::Credentials::SshKey"
      THEN IF ~HasType(allowed_types, GIT_CREDTYPE_SSH_KEY)
           THEN raise(InvalidCredType)
           ELSE IF ~rb_cred.wf THEN raise(TypeError)
           ELSE made(GIT_CREDTYPE_SSH_KEY)
      ELSE IF rb_cred.class = "Rugged::Credentials::Default"
      THEN IF ~HasType(allowed_types, GIT_CREDTYPE_SSH_KEY)
           THEN raise(InvalidCredType)
           ELSE made(GIT_CREDTYPE_DEFAULT)
      ELSE made("unset")

\* rb_protect(rugged__extract_cred, ...) as both credential callbacks use it
ProtectedExtract(pl, rb_cred, allowed_types) ==
  LET x == rugged__extract_cred(rb_cred, allowed_types)
      pl2 == [pl EXCEPT !.exception = IF x.raised THEN TAG_RAISE ELSE 0]
  IN  [payload |-> pl2, rb_cred |-> rb_cred, cred |-> x.cred,
       state |-> pl2.exception, exc |-> x.exc,
       rc |-> IF pl2.exception # 0 THEN GIT_ERROR ELSE GIT_OK]

rugged__default_remote_credentials_cb(pl, allowed_types) ==
  ProtectedExtract(pl, pl.credentials, allowed_types)

rugged__remote_credentials_cb(pl, allowed_types, out) ==
  LET pl1 == [pl EXCEPT !.exception = out.state]
  IN  IF pl1.exception = 0
      THEN ProtectedExtract(pl1, out.value, allowed_types)
      ELSE [payload |-> pl1, rb_cred |-> out.value, cred |-> "unset",
            state |-> out.state, exc |-> out.exc, rc |-> GIT_ERROR]

rugged__remote_progress_cb(pl, out) ==
  LET pl2 == [pl EXCEPT !.exception = out.state]
  IN  [payload |-> pl2, state |-> out.state, exc |-> out.exc,
       rc |-> IF pl2.exception # 0 THEN GIT_ERROR ELSE GIT_OK]

rugged__remote_transfer_progress_cb(pl, out) ==
  LET pl2 == [pl EXCEPT !.exception = out.state]
  IN  [payload |-> pl2, state |-> out.state, exc |-> out.exc,
       rc |-> IF pl2.exception # 0 THEN GIT_ERROR ELSE GIT_OK]

rugged__remote_update_tips_cb(pl, out) ==
  LET pl2 == [pl EXCEPT !.exception = out.state]
  IN  [payload |-> pl2, state |-> out.state, exc |-> out.exc,
       rc |-> IF pl2.exception # 0 THEN GIT_ERROR ELSE GIT_OK]

(***************************************************************************)
(* fetch: git_remote_fetch.  The transport connects (asking for            *)
(* credentials), downloads (reporting progress), then updates the tips.    *)
(***************************************************************************)
\* the transport has called callback cb and got r: it goes on, or (abort)
\* gives up and git_remote_fetch returns an error
AfterCallback(cb, r, abort) ==
  /\ payload' = r.payload
  /\ errinfo' = IF r.state # 0 THEN r.exc ELSE errinfo
  /\ ncb' = ncb + 1
  /\ IF abort
     THEN /\ error' = GIT_ERROR
          /\ giterr' = "callback"
          /\ aborted_by' = [cb |-> cb, state |-> r.state, exc |-> r.exc]
          /\ pc' = "cleanup"
     ELSE UNCHANGED << error, giterr, aborted_by, pc >>
  /\ UNCHANGED << ret, i, exception, remote, remote_before, rb_refspecs,
                  callbacks, tmp_remote, frees, phase, lsVars, delivered,
                  repo, eachVars, callVars, lib_calls >>

transport_credentials ==
  /\ pc = "transfer" /\ phase = "connect"
  /\ tmp_remote.callbacks.credentials # "none"
  /\ ncb < MaxCallbacks
  /\ \E allowed_types \in SUBSET CredTypes :
       \E out \in IF tmp_remote.callbacks.credentials = "dynamic"
                  THEN ResolverOutcomes ELSE {Finished(RbNil)} :
         LET r == IF tmp_remote.callbacks.credentials = "dynamic"
                  THEN rugged__remote_credentials_cb(payload, allowed_types, out)
                  ELSE rugged__default_remote_credentials_cb(payload, allowed_types)
         IN  /\ challenge' =
                  [made |-> TRUE, allowed_types |-> allowed_types,
                   rb_cred |-> r.rb_cred, cred |-> r.cred, rc |-> r.rc]
             /\ AfterCallback("credentials", r, r.rc # GIT_OK)

\* the sideband progress: some transports ignore what the callback returns
transport_progress ==
  /\ pc = "transfer" /\ phase = "download"
  /\ tmp_remote.callbacks.progress
  /\ ncb < MaxCallbacks
  /\ \E out \in BlockOutcomes("progress"), ignored \in BOOLEAN :
       LET r == rugged__remote_progress_cb(payload, out)
       IN  /\ r.rc = GIT_OK => ~ignored
           /\ AfterCallback("progress", r, r.rc # GIT_OK /\ ~ignored)
  /\ UNCHANGED challenge

transport_transfer_progress ==
  /\ pc = "transfer" /\ phase = "download"
  /\ tmp_remote.callbacks.transfer_progress
  /\ ncb < MaxCallbacks
  /\ \E out \in BlockOutcomes("transfer_progress") :
       LET r == rugged__remote_transfer_progress_cb(payload, out)
       IN  AfterCallback("transfer_progress", r, r.rc # GIT_OK)
  /\ UNCHANGED challenge

transport_update_tips ==
  /\ pc = "transfer" /\ phase = "update_tips"
  /\ tmp_remote.callbacks.update_tips
  /\ ncb < MaxCallbacks
  /\ \E out \in BlockOutcomes("update_tips") :
       LET r == rugged__remote_update_tips_cb(payload, out)
       IN  AfterCallback("update_tips", r, r.rc # GIT_OK)
  /\ UNCHANGED challenge

\* connected, then downloaded: the credential of the last challenge is used up
transport_advance ==
  /\ pc = "transfer" /\ phase \in {"connect", "download"}
  /\ phase' = IF phase = "connect" THEN "download" ELSE "update_tips"
  /\ challenge' = NoChallenge
  /\ UNCHANGED << pc, ret, error, giterr, i, exception, errinfo, remote,
                  remote_before, rb_refspecs, callbacks, payload, tmp_remote,
                  frees, ncb, aborted_by, lsVars, delivered, repo, eachVars, callVars,
                  lib_calls >>

\* git_remote_fetch returns: 0 after the tips, an error from anywhere
transport_return ==
  /\ pc = "transfer"
  /\ \E failed \in BOOLEAN :
       /\ ~failed => phase = "update_tips"
       /\ error' = IF failed THEN GIT_ERROR ELSE GIT_OK
       /\ giterr' = IF failed THEN "transport" ELSE giterr
  /\ pc' = "cleanup"
  /\ lib_calls' = lib_calls + 1
  /\ UNCHANGED << ret, i, exception, errinfo, remote, remote_before,
                  rb_refspecs, callbacks, payload, tmp_remote, frees, phase,
                  ncb, challenge, aborted_by, lsVars, delivered, repo,
                  eachVars, callVars >>

\* lines 855-864.  payload.exception is an int that RTEST reads as a VALUE
rb_git_remote_fetch_cleanup ==
  /\ pc = "cleanup"
  /\ frees' = frees + 1
  /\ \E Qnil \in QnilValues :
       ret' = IF RTEST(payload.exception, Qnil)
              THEN Raise(payload.exception, errinfo)
              ELSE rugged_exception_check(error, giterr, Return("nil"))
  /\ pc' = "done"
  /\ UNCHANGED << error, giterr, i, exception, errinfo, remote, remote_before,
                  rb_refspecs, callbacks, payload, tmp_remote, phase, ncb,
                  challenge, aborted_by, lsVars, delivered, repo, eachVars, callVars,
                  lib_calls >>

(***************************************************************************)
(* The remotes and repositories the handlers are called on.                *)
(***************************************************************************)
UrlGit == "git://host/repo.git"
UrlSsh == "git@host:repo.git"
UrlBad == "not a url"
UrlNul == "git://host/a<NUL>b"
UrlNotAString == ":url"
ValidUrls == {UrlGit, UrlSsh}
AutotagValues == {"auto", "none", "all"}

Remotes ==
  [name : {"origin"}, url : ValidUrls, push_url : {""} \cup ValidUrls,
   autotag : AutotagValues,
   fetch_refspecs : SeqsUpTo(ValidRefspecs, MaxRefspecs),
   callbacks : {NoCallbacks}]

\* no handler has been entered
Idle ==
  /\ ret = NoResult
  /\ error = GIT_OK
  /\ giterr = ""
  /\ i = 0
  /\ exception = 0
  /\ errinfo = NoExc
  /\ remote_before = remote
  /\ rb_refspecs = NoRefspecs
  /\ callbacks = NoCallbacks
  /\ payload = EmptyPayload
  /\ tmp_remote = NoRemote
  /\ frees = 0
  /\ phase = ""
  /\ ncb = 0
  /\ challenge = NoChallenge
  /\ aborted_by = NoAbort
  /\ connects = 0
  /\ disconnects = 0
  /\ heads = [set |-> FALSE, list |-> << >>, len |-> 0]
  /\ delivered = << >>
  /\ remotes = [listed |-> FALSE, strings |-> << >>, freed |-> 0]
  /\ loads = << >>
  /\ call = NoCall
  /\ repo_before = repo
  /\ lib_calls = 0

(***************************************************************************)
(* fetch on a remote of the repository.                                    *)
(***************************************************************************)
\* the remotes fetch is called on list each of their refspecs once
FetchRemotes ==
  { r \in Remotes :
      /\ r.push_url = "" /\ r.autotag \in {"auto", "all"}
      /\ \A j, k \in 1..Len(r.fetch_refspecs) :
            r.fetch_refspecs[j] = r.fetch_refspecs[k] => j = k }

InitFetch ==
  /\ pc = "fetch"
  /\ remote \in FetchRemotes
  /\ repo = << >>
  /\ Idle

NextFetch ==
  \/ rb_git_remote_fetch_enter
  \/ rb_git_remote_fetch_create
  \/ rb_git_remote_fetch_add_override
  \/ rb_git_remote_fetch_override_done
  \/ rb_git_remote_fetch_copy_refspecs
  \/ transport_credentials
  \/ transport_progress
  \/ transport_transfer_progress
  \/ transport_update_tips
  \/ transport_advance
  \/ transport_return
  \/ rb_git_remote_fetch_cleanup

SpecFetch == InitFetch /\ [][NextFetch]_vars

(***************************************************************************)
(* Properties of fetch.                                                    *)
(***************************************************************************)
\* the credential type a Rugged::Credentials object stands for
CredTypeOf(rb_cred) ==
  IF rb_cred.class = "Rugged::Credentials::Plaintext"
  THEN GIT_CREDTYPE_USERPASS_PLAINTEXT
  ELSE IF rb_cred.class = "Rugged::Credentials::SshKey"
  THEN GIT_CREDTYPE_SSH_KEY
  ELSE GIT_CREDTYPE_DEFAULT

\* C1: once fetch has created the temporary remote, the remote is freed
\* exactly once before fetch returns or raises, whatever the exit path.
C1_TmpRemoteFreedOnce ==
  /\ frees <= 1
  /\ (pc = "done" /\ tmp_remote.created) => frees = 1

\* C2: when fetch has returned or raised, the caller's remote has the fetch
\* refspecs, the url and the autotag policy it had when fetch was called,
\* and no callback has been installed on it.
C2_CallerRemoteUnchanged ==
  pc = "done" =>
    /\ remote.fetch_refspecs = remote_before.fetch_refspecs
    /\ remote.url = remote_before.url
    /\ remote.autotag = remote_before.autotag
    /\ remote.callbacks = remote_before.callbacks

\* a fetch with two override refspecs, on a remote that has two refspecs of
\* its own, has gone through the transfer and returned
C2_Witness ==
  /\ pc = "done" /\ ret.kind = "return"
  /\ rb_refspecs.given /\ Len(tmp_remote.fetch_refspecs) = 2
  /\ remote.fetch_refspecs = << RefspecTags, RefspecHeads >>

\* C3: a credential whose kind is not among the challenge's allowed types
\* makes the callback fail with the credential error, builds no git_cred,
\* and fetch ends by raising that error.
C3_WrongKindRejected ==
  ( /\ challenge.made
    /\ challenge.rb_cred.class \in CredClasses
    /\ CredTypeOf(challenge.rb_cred) \notin challenge.allowed_types )
  => /\ challenge.rc = GIT_ERROR
     /\ challenge.cred = "unset"
     /\ pc \in {"cleanup", "done"}
     /\ pc = "done" => ret = rb_raise(InvalidCredType)

\* C4: a well-formed static credential whose kind is among the challenge's
\* allowed types is turned into a git_cred of that kind, and the callback
\* returns GIT_OK.
C4_AllowedKindAnswered ==
  ( /\ challenge.made
    /\ tmp_remote.callbacks.credentials = "static"
    /\ challenge.rb_cred.wf
    /\ CredTypeOf(challenge.rb_cred) \in challenge.allowed_types )
  => /\ challenge.cred = CredTypeOf(challenge.rb_cred)
     /\ challenge.rc = GIT_OK

\* C7: when a callback is left with any nonzero unwind state and the
\* transfer fails because of it, fetch frees the temporary remote and then
\* re-raises that very failure with that very state.
C7_CallbackFailureReraised ==
  (pc = "done" /\ aborted_by.cb # "") =>
    /\ frees = 1
    /\ ret = Raise(aborted_by.state, aborted_by.exc)

\* the first index of the override whose installation fails (0 when none):
\* StringValueCStr raises on it, or git_remote_add_fetch cannot parse it
FirstFailing(ary) ==
  IF \E k \in 1..Len(ary) : ary[k] \notin ValidRefspecs
  THEN CHOOSE k \in 1..Len(ary) :
         /\ ary[k] \notin ValidRefspecs
         /\ \A j \in 1..(k - 1) : ary[j] \in ValidRefspecs
  ELSE 0

\* C11: with a refspec override the temporary remote holds the override
\* refspecs in the given order and nothing else when the transfer starts;
\* when the installation of the refspec at some index fails, the temporary
\* remote holds the refspecs before that index only, no connect, transfer or
\* callback happens, and fetch ends by raising that error.  Without an
\* override the temporary remote starts the transfer with a copy of the
\* caller's fetch refspecs.
C11_OverrideRefspecs ==
  LET ary == rb_refspecs.ary
      tmp == tmp_remote.fetch_refspecs
      f == FirstFailing(ary)
  IN  /\ (rb_refspecs.given /\ tmp_remote.created) =>
            /\ Len(tmp) <= Len(ary)
            /\ tmp = SubSeq(ary, 1, Len(tmp))
            /\ phase # "" => tmp = ary
            /\ f # 0 =>
                  /\ Len(tmp) < f
                  /\ phase = "" /\ ncb = 0
                  /\ pc \notin {"transfer", "crashed"}
                  /\ (pc = "done" /\ giterr # "callbacks") =>
                        ret = IF ary[f] = RefspecNul
                              THEN rb_raise(NullByte)
                              ELSE rb_raise(RuggedError("refspec"))
      /\ (~rb_refspecs.given /\ phase # "") =>
            tmp = remote_before.fetch_refspecs

\* the override's first refspec was installed, its second was refused, and
\* fetch has raised the parser's error without starting a transfer
C11_Witness ==
  /\ pc = "done"
  /\ rb_refspecs.ary = << RefspecTags, RefspecBad >>
  /\ tmp_remote.fetch_refspecs = << RefspecTags >>
  /\ remote.fetch_refspecs = << RefspecHeads >>
  /\ ret = rb_raise(RuggedError("refspec"))
  /\ phase = ""

\* C13: once a callback invocation of the transfer has failed (errinfo
\* holds the failure of the latest one that did), the payload keeps a
\* nonzero state whatever later invocations do, and fetch does not return:
\* it ends by raising.
C13_CallbackFailureKept ==
  /\ errinfo # NoExc => payload.exception # 0
  /\ (pc = "done" /\ errinfo # NoExc) => ret.kind = "raise"

\* C14: a credential callback, static or dynamic, that returns GIT_OK to the
\* transport has built a git_cred for the challenge; a resolver value that
\* is no credential object makes the callback return an error.
C14_SuccessHasCredential ==
  /\ (challenge.made /\ challenge.rc = GIT_OK) => challenge.cred # "unset"
  /\ (challenge.made /\ challenge.rb_cred.class \notin CredClasses) =>
       challenge.rc = GIT_ERROR

(***************************************************************************)
(* ls: connect, list the heads, yield each to the block, disconnect.       *)
(***************************************************************************)
OidTable == << "a1a1", "b2b2", "c3c3", "d4d4" >>
ZeroOid == "0000"
\* the k-th head the remote advertises (git_remote_head)
RemoteHead(k) ==
  [local |-> k % 2 = 0, oid |-> OidTable[k],
   loid |-> IF k % 2 = 0 THEN OidTable[k] ELSE ZeroOid,
   name |-> IF k = 1 THEN "HEAD" ELSE "refs/heads/" \o OidTable[k]]
\* what an uninitialized heads[i] may point to
GarbageHead ==
  [local |-> TRUE, oid |-> "????", loid |-> "????", name |-> "????"]

\* rugged_rhead_new: the Hash made of a head; a zero loid becomes nil
rugged_rhead_new(head) ==
  [local |-> head.local, oid |-> head.oid,
   loid |-> IF head.loid = ZeroOid THEN "nil" ELSE head.loid,
   name |-> head.name]

\* up to git_remote_connect (lines 196-202)
rb_git_remote_ls_enter ==
  /\ pc = "ls"
  /\ \E block_given \in BOOLEAN, connected \in BOOLEAN :
       IF ~block_given
       THEN /\ ret' = Return("enumerator")
            /\ pc' = "done"
            /\ UNCHANGED << error, giterr, connects, lib_calls >>
       ELSE /\ lib_calls' = lib_calls + 1
            /\ IF connected
               THEN /\ connects' = connects + 1
                    /\ pc' = "ls_list"
                    /\ UNCHANGED << error, giterr, ret >>
               ELSE /\ error' = GIT_ERROR
                    /\ giterr' = "connect"
                    /\ ret' = rugged_exception_check(GIT_ERROR, "connect", ret)
                    /\ pc' = "done"
                    /\ UNCHANGED connects
  /\ call' = [call EXCEPT !.op = "ls"]
  /\ UNCHANGED << i, exception, errinfo, remote, remote_before, fetchVars,
                  disconnects, heads, delivered, repo, eachVars, repo_before >>

\* git_remote_ls (line 204).  On failure heads and heads_len are not written:
\* heads_len keeps whatever the stack held.
rb_git_remote_ls_list ==
  /\ pc = "ls_list"
  /\ \E listed \in BOOLEAN, n \in 0..MaxHeads :
       /\ error' = IF listed THEN GIT_OK ELSE GIT_ERROR
       /\ giterr' = IF listed THEN giterr ELSE "ls"
       /\ heads' = [set |-> listed,
                    list |-> IF listed THEN [k \in 1..n |-> RemoteHead(k)] ELSE << >>,
                    len |-> n]
  /\ i' = 0
  /\ pc' = "ls_loop"
  /\ lib_calls' = lib_calls + 1
  /\ UNCHANGED << ret, exception, errinfo, remote, remote_before, fetchVars,
                  connects, disconnects, delivered, repo, eachVars, callVars >>

LsLoopIgnoringException(idx, len, exc) == idx < len

\* the loop condition of line 206
LsLoop(idx, len, exc) == idx < len /\ exc = 0

\* one iteration of the loop (line 207); reading heads[i] of an unset heads
\* gives garbage or brings the process down
rb_git_remote_ls_yield ==
  /\ pc = "ls_loop"
  /\ LsLoop(i, heads.len, exception)
  /\ \E out \in BlockOutcomes("ls block"), readable \in BOOLEAN :
       /\ heads.set => readable
       /\ IF readable
          THEN /\ delivered' =
                    Append(delivered,
                           rugged_rhead_new(IF heads.set THEN heads.list[i + 1]
                                            ELSE GarbageHead))
               /\ exception' = out.state
               /\ errinfo' = IF out.state # 0 THEN out.exc ELSE errinfo
               /\ i' = i + 1
               /\ pc' = pc
          ELSE /\ out.state = 0
               /\ pc' = "crashed"
               /\ UNCHANGED << delivered, exception, errinfo, i >>
  /\ UNCHANGED << ret, error, giterr, remote, remote_before, fetchVars,
                  lsVars, repo, eachVars, callVars, lib_calls >>

LsEndRaisingFirst(exc, info, err, msg, d) ==
  IF exc # 0
  THEN [disconnects |-> d, ret |-> Raise(exc, info)]
  ELSE [disconnects |-> d + 1,
        ret |-> rugged_exception_check(err, msg, Return("nil"))]

\* lines 210-217: disconnect, then the block's exception, then the error
LsEnd(exc, info, err, msg, d) ==
  [disconnects |-> d + 1,
   ret |-> IF exc # 0 THEN Raise(exc, info)
           ELSE rugged_exception_check(err, msg, Return("nil"))]

rb_git_remote_ls_finish ==
  /\ pc = "ls_loop"
  /\ ~LsLoop(i, heads.len, exception)
  /\ LET e == LsEnd(exception, errinfo, error, giterr, disconnects)
     IN  /\ disconnects' = e.disconnects
         /\ ret' = e.ret
  /\ pc' = "done"
  /\ lib_calls' = lib_calls + 1
  /\ UNCHANGED << error, giterr, i, exception, errinfo, remote, remote_before,
                  fetchVars, connects, heads, delivered, repo, eachVars,
                  callVars >>

InitLs ==
  /\ pc = "ls"
  /\ remote \in Remotes
  /\ repo = << >>
  /\ Idle

NextLs ==
  \/ rb_git_remote_ls_enter
  \/ rb_git_remote_ls_list
  \/ rb_git_remote_ls_yield
  \/ rb_git_remote_ls_finish

SpecLs == InitLs /\ [][NextLs]_vars

(***************************************************************************)
(* Properties of ls.                                                       *)
(***************************************************************************)
\* C5: when connect succeeded, ls has disconnected exactly once by the time
\* it returns or raises; when connect failed it never disconnects and
\* delivers no head.
C5_LsDisconnectsOnce ==
  /\ disconnects <= 1
  /\ (pc = "done" /\ connects = 1) => disconnects = 1
  /\ connects = 0 => (disconnects = 0 /\ delivered = << >>)

\* the block failed on the first of two heads, and ls is over
C5_Witness ==
  /\ pc = "done" /\ connects = 1 /\ disconnects = 1
  /\ heads.set /\ heads.len = 2 /\ Len(delivered) = 1
  /\ ret.kind = "raise"

\* C6: once the block has failed on a head no further head is delivered,
\* and what ls raises after disconnecting is the block's own failure with
\* its own state, never the transport's error.
C6_LsBlockFailure ==
  /\ [][exception # 0 => delivered' = delivered]_vars
  /\ [](pc = "done" /\ exception # 0 =>
          /\ disconnects = 1
          /\ ret = Raise(exception, CallbackFailure("ls block")))

\* the block was left by a throw on the first of two heads
C6_Witness ==
  /\ pc = "done" /\ exception = 7
  /\ heads.set /\ heads.len = 2
  /\ delivered = << rugged_rhead_new(RemoteHead(1)) >>
  /\ ret.exc = CallbackFailure("ls block")

\* C12: when connect succeeded and git_remote_ls failed, the block is never
\* called, the remote is disconnected, and ls raises the transport's error:
\* the head count that the failed listing left unset decides nothing.
C12_LsListingFailure ==
  (connects = 1 /\ error = GIT_ERROR /\ giterr = "ls") =>
    /\ delivered = << >>
    /\ pc # "crashed"
    /\ pc = "done" =>
         /\ disconnects = 1
         /\ ret = rb_raise(RuggedError("ls"))

(***************************************************************************)
(* The repository's remotes.                                               *)
(***************************************************************************)
RemoteNames == {"origin", "upstream", "fork"}
NotAName == ":origin"
\* the fetch refspec git_remote_create gives a new remote
DefaultFetch(name) ==
  IF name = "origin" THEN "+refs/heads/*:refs/remotes/origin/*"
  ELSE IF name = "upstream" THEN "+refs/heads/*:refs/remotes/upstream/*"
  ELSE "+refs/heads/*:refs/remotes/fork/*"
Configured(name, url) ==
  [name |-> name, url |-> url, push_url |-> "", autotag |-> "auto",
   fetch_refspecs |-> << DefaultFetch(name) >>, callbacks |-> NoCallbacks]
\* an in-memory remote has no name and no refspec
InMemory(url) ==
  [name |-> "", url |-> url, push_url |-> "", autotag |-> "auto",
   fetch_refspecs |-> << >>, callbacks |-> NoCallbacks]

NamesOf(rp) == [k \in 1..Len(rp) |-> rp[k].name]
HasRemote(rp, name) == \E k \in 1..Len(rp) : rp[k].name = name
RemoteNamed(rp, name) == rp[CHOOSE k \in 1..Len(rp) : rp[k].name = name]

\* repositories: up to MaxRemotes remotes with distinct names
Repos ==
  { rp \in SeqsUpTo({ Configured(n, u) : n \in RemoteNames, u \in ValidUrls },
                    MaxRemotes) :
      \A j, k \in 1..Len(rp) : j # k => rp[j].name # rp[k].name }

\* git_remote_load: the remote of that name, GIT_ENOTFOUND when the
\* configuration has none, or another error (unreadable configuration)
git_remote_load(rp, name) ==
  { [error |-> GIT_ERROR, remote |-> InMemory("")] }
  \cup IF HasRemote(rp, name)
       THEN { [error |-> GIT_OK, remote |-> RemoteNamed(rp, name)] }
       ELSE { [error |-> GIT_ENOTFOUND, remote |-> InMemory("")] }

(***************************************************************************)
(* each: load every remote of the repository and yield it to the block.    *)
(***************************************************************************)
\* lines 453-460
rb_git_remote_each_enter ==
  /\ pc = "each"
  /\ \E block_given \in BOOLEAN, is_repo \in BOOLEAN, listed \in BOOLEAN :
       /\ call' = [call EXCEPT !.op = "each", !.is_repo = is_repo]
       /\ IF ~block_given
          THEN /\ ret' = Return("enumerator")
               /\ pc' = "done"
               /\ UNCHANGED << error, giterr, remotes, lib_calls >>
          ELSE IF ~is_repo
          THEN /\ ret' = rb_raise(TypeError)
               /\ pc' = "done"
               /\ UNCHANGED << error, giterr, remotes, lib_calls >>
          ELSE /\ lib_calls' = lib_calls + 1
               /\ IF listed
                  THEN /\ remotes' = [listed |-> TRUE, strings |-> NamesOf(repo),
                                      freed |-> 0]
                       /\ pc' = "each_loop"
                       /\ UNCHANGED << error, giterr, ret >>
                  ELSE /\ error' = GIT_ERROR
                       /\ giterr' = "list"
                       /\ ret' = rugged_exception_check(GIT_ERROR, "list", ret)
                       /\ pc' = "done"
                       /\ UNCHANGED remotes
  /\ i' = 0
  /\ UNCHANGED << exception, errinfo, remote, remote_before, fetchVars,
                  lsVars, delivered, repo, loads, repo_before >>

EachLoopIgnoringFailure(exc, err, idx, count) == idx < count

\* the loop condition of line 462
EachLoop(exc, err, idx, count) == exc = 0 /\ err = GIT_OK /\ idx < count

\* one iteration (lines 463-470): load the remote, yield it if it loaded
rb_git_remote_each_step ==
  /\ pc = "each_loop"
  /\ EachLoop(exception, error, i, Len(remotes.strings))
  /\ \E r \in git_remote_load(repo, remotes.strings[i + 1]),
        out \in BlockOutcomes("each block") :
       /\ error' = r.error
       /\ giterr' = IF r.error # GIT_OK THEN "load" ELSE giterr
       /\ loads' = Append(loads, remotes.strings[i + 1])
       /\ IF r.error = GIT_OK
          THEN /\ delivered' = Append(delivered, r.remote)
               /\ exception' = out.state
               /\ errinfo' = IF out.state # 0 THEN out.exc ELSE errinfo
          ELSE /\ out.state = 0
               /\ UNCHANGED << delivered, exception, errinfo >>
  /\ i' = i + 1
  /\ lib_calls' = lib_calls + 1
  /\ UNCHANGED << pc, ret, remote, remote_before, fetchVars, lsVars, repo,
                  remotes, callVars >>

\* lines 473-479: free the names, then the block's exception, then the error
rb_git_remote_each_finish ==
  /\ pc = "each_loop"
  /\ ~EachLoop(exception, error, i, Len(remotes.strings))
  /\ remotes' = [remotes EXCEPT !.freed = @ + 1]
  /\ ret' = IF exception # 0 THEN Raise(exception, errinfo)
            ELSE rugged_exception_check(error, giterr, Return("nil"))
  /\ pc' = "done"
  /\ UNCHANGED << error, giterr, i, exception, errinfo, remote, remote_before,
                  fetchVars, lsVars, delivered, repo, loads, callVars,
                  lib_calls >>

InitEach ==
  /\ pc = "each"
  /\ remote = InMemory(UrlGit)
  /\ repo \in Repos
  /\ Idle

NextEach ==
  \/ rb_git_remote_each_enter
  \/ rb_git_remote_each_step
  \/ rb_git_remote_each_finish

SpecEach == InitEach /\ [][NextEach]_vars

(***************************************************************************)
(* Properties of each.                                                     *)
(***************************************************************************)
\* C9: each loads the remotes in the order of the name list and yields each
\* loaded remote; after the first failure of the block or of a load nothing
\* more is loaded or yielded; the name list is freed once; and each raises
\* that failure (the block's own when the block failed).
C9_EachStopsAtFirstFailure ==
  /\ [][(exception # 0 \/ error # GIT_OK) =>
          (loads' = loads /\ delivered' = delivered)]_vars
  /\ [](remotes.listed =>
          /\ loads = SubSeq(remotes.strings, 1, Len(loads))
          /\ Len(delivered) = IF error = GIT_OK THEN Len(loads) ELSE Len(loads) - 1
          /\ \A k \in 1..Len(delivered) :
               delivered[k] = RemoteNamed(repo, remotes.strings[k])
          /\ remotes.freed = IF pc = "done" THEN 1 ELSE 0
          /\ pc = "done" =>
               ret = IF exception # 0
                     THEN Raise(exception, CallbackFailure("each block"))
                     ELSE IF error # GIT_OK THEN rb_raise(RuggedError("load"))
                     ELSE Return("nil")
          /\ (pc = "done" /\ ret.kind = "return") => loads = remotes.strings)

\* the block failed on the first of two remotes
C9_Witness ==
  /\ pc = "done" /\ Len(remotes.strings) = 2 /\ remotes.freed = 1
  /\ exception # 0 /\ Len(delivered) = 1 /\ loads = << remotes.strings[1] >>
  /\ ret.kind = "raise"

(***************************************************************************)
(* Remote.new, Remote.add, Remote.lookup, url= and push_url=.              *)
(***************************************************************************)
UrlArgs == {UrlGit, UrlSsh, UrlBad, UrlNul, UrlNotAString}
NameArgs == RemoteNames \cup {NotAName}

\* git_remote_valid_url: the url names a transport libgit2 knows
git_remote_valid_url(cstr) == cstr \in ValidUrls

ValidateUrlTypeOnly(rb_url) ==
  IF rb_url = UrlNotAString
  THEN [raised |-> TRUE, exc |-> TypeError, cstr |-> ""]
  ELSE StringValueCStr(rb_url)

\* rugged_validate_remote_url: Check_Type, then git_remote_valid_url
rugged_validate_remote_url(rb_url) ==
  IF rb_url = UrlNotAString
  THEN [raised |-> TRUE, exc |-> TypeError, cstr |-> ""]
  ELSE LET c == StringValueCStr(rb_url)
       IN  IF c.raised THEN c
           ELSE IF ~git_remote_valid_url(c.cstr)
           THEN [raised |-> TRUE, exc |-> InvalidUrl, cstr |-> ""]
           ELSE c

\* the handler ends without having called libgit2
EndsEarly(op, is_repo, name, url, exc) ==
  /\ call' = [op |-> op, is_repo |-> is_repo, name |-> name, url |-> url]
  /\ ret' = rb_raise(exc)
  /\ pc' = "done"
  /\ UNCHANGED << error, giterr, i, exception, errinfo, remote, remote_before,
                  fetchVars, lsVars, delivered, repo, eachVars, repo_before,
                  lib_calls >>

\* the handler ends after one libgit2 call that gave err
EndsAfterCall(op, is_repo, name, url, err, msg, result) ==
  /\ call' = [op |-> op, is_repo |-> is_repo, name |-> name, url |-> url]
  /\ error' = err
  /\ giterr' = IF err # GIT_OK THEN msg ELSE giterr
  /\ ret' = result
  /\ pc' = "done"
  /\ lib_calls' = lib_calls + 1
  /\ UNCHANGED << i, exception, errinfo, remote_before, fetchVars, lsVars,
                  eachVars, repo_before >>

\* Remote.new(repository, url)
rb_git_remote_new ==
  /\ pc = "call"
  /\ \E is_repo \in BOOLEAN, rb_url \in UrlArgs, created \in BOOLEAN :
       LET v == rugged_validate_remote_url(rb_url)
           err == IF created THEN GIT_OK ELSE GIT_ERROR
       IN  IF ~is_repo THEN EndsEarly("new", is_repo, "", rb_url, TypeError)
           ELSE IF v.raised THEN EndsEarly("new", is_repo, "", rb_url, v.exc)
           ELSE /\ EndsAfterCall("new", is_repo, "", rb_url, err, "create",
                     rugged_exception_check(err, "create", Return("remote")))
                /\ delivered' = IF created THEN << InMemory(v.cstr) >>
                                ELSE delivered
                /\ UNCHANGED << remote, repo >>

\* Remote.add(repository, name, url); git_remote_create refuses a name that
\* is taken and can fail to write the configuration
rb_git_remote_add ==
  /\ pc = "call"
  /\ \E is_repo \in BOOLEAN, rb_name \in NameArgs, rb_url \in UrlArgs,
        written \in BOOLEAN :
       LET v == rugged_validate_remote_url(rb_url)
           created == written /\ ~HasRemote(repo, rb_name)
           err == IF created THEN GIT_OK ELSE GIT_ERROR
       IN  IF rb_name = NotAName
           THEN EndsEarly("add", is_repo, rb_name, rb_url, TypeError)
           ELSE IF v.raised
           THEN EndsEarly("add", is_repo, rb_name, rb_url, v.exc)
           ELSE IF ~is_repo
           THEN EndsEarly("add", is_repo, rb_name, rb_url, TypeError)
           ELSE /\ EndsAfterCall("add", is_repo, rb_name, rb_url, err, "create",
                     rugged_exception_check(err, "create", Return("remote")))
                /\ repo' = IF created
                           THEN Append(repo, Configured(rb_name, v.cstr))
                           ELSE repo
                /\ delivered' = IF created
                                THEN << Configured(rb_name, v.cstr) >>
                                ELSE delivered
                /\ UNCHANGED remote

LookupRaisingNotFound(err, msg) ==
  rugged_exception_check(err, msg, Return("remote"))

\* lines 149-154: not found is nil, any other error is raised
LookupResult(err, msg) ==
  IF err = GIT_ENOTFOUND THEN Return("nil")
  ELSE rugged_exception_check(err, msg, Return("remote"))

\* Remote.lookup(repository, name)
rb_git_remote_lookup ==
  /\ pc = "call"
  /\ \E is_repo \in BOOLEAN, rb_name \in NameArgs :
       IF rb_name = NotAName \/ ~is_repo
       THEN EndsEarly("lookup", is_repo, rb_name, "", TypeError)
       ELSE \E r \in git_remote_load(repo, rb_name) :
              /\ EndsAfterCall("lookup", is_repo, rb_name, "", r.error, "load",
                               LookupResult(r.error, "load"))
              /\ delivered' = IF LookupResult(r.error, "load").value = "remote"
                              THEN << r.remote >> ELSE delivered
              /\ UNCHANGED << remote, repo >>

\* remote.url = url
rb_git_remote_set_url ==
  /\ pc = "call"
  /\ \E rb_url \in UrlArgs, set \in BOOLEAN :
       LET v == rugged_validate_remote_url(rb_url)
           err == IF set THEN GIT_OK ELSE GIT_ERROR
       IN  IF v.raised THEN EndsEarly("url=", TRUE, "", rb_url, v.exc)
           ELSE /\ EndsAfterCall("url=", TRUE, "", rb_url, err, "set_url",
                     rugged_exception_check(err, "set_url", Return(rb_url)))
                /\ remote' = IF set THEN [remote EXCEPT !.url = v.cstr]
                             ELSE remote
                /\ UNCHANGED << repo, delivered >>

\* remote.push_url = url
rb_git_remote_set_push_url ==
  /\ pc = "call"
  /\ \E rb_url \in UrlArgs, set \in BOOLEAN :
       LET v == rugged_validate_remote_url(rb_url)
           err == IF set THEN GIT_OK ELSE GIT_ERROR
       IN  IF v.raised THEN EndsEarly("push_url=", TRUE, "", rb_url, v.exc)
           ELSE /\ EndsAfterCall("push_url=", TRUE, "", rb_url, err, "set_pushurl",
                     rugged_exception_check(err, "set_pushurl", Return(rb_url)))
                /\ remote' = IF set THEN [remote EXCEPT !.push_url = v.cstr]
                             ELSE remote
                /\ UNCHANGED << repo, delivered >>

\* the Remote objects the accessors are called on
Handles ==
  { r \in Remotes : r.autotag = "auto" /\ Len(r.fetch_refspecs) <= 1 }

InitRegistry ==
  /\ pc = "call"
  /\ remote \in Handles
  /\ repo \in Repos
  /\ Idle

NextRegistry ==
  \/ rb_git_remote_new
  \/ rb_git_remote_add
  \/ rb_git_remote_lookup
  \/ rb_git_remote_set_url
  \/ rb_git_remote_set_push_url

SpecRegistry == InitRegistry /\ [][NextRegistry]_vars

(***************************************************************************)
(* Properties of lookup and of the url checks.                             *)
(***************************************************************************)
\* C8: lookup returns nil, raising nothing, when the store says the remote
\* is not found; after a load it raises only for an error other than not
\* found; and it returns a remote only when the load succeeded.
C8_LookupNotFoundIsNil ==
  (pc = "done" /\ call.op = "lookup") =>
    /\ (lib_calls = 1 /\ error = GIT_ENOTFOUND) => ret = Return("nil")
    /\ (lib_calls = 1 /\ ret.kind = "raise") =>
         /\ error < 0 /\ error # GIT_ENOTFOUND
         /\ ret = rb_raise(RuggedError("load"))
    /\ (lib_calls = 0) => ret = rb_raise(TypeError)
    /\ (ret.value = "remote") <=> (lib_calls = 1 /\ error = GIT_OK)
    /\ (ret.value = "remote") =>
         delivered = << RemoteNamed(repo, call.name) >>

\* a lookup of a name the repository, which has remotes, does not have
C8_Witness ==
  /\ pc = "done" /\ call.op = "lookup" /\ error = GIT_ENOTFOUND
  /\ Len(repo) = 2 /\ ~HasRemote(repo, call.name)
  /\ ret = Return("nil")

\* C10: Remote.add, Remote.new, url= and push_url= given a url that is not
\* valid raise an argument error without having called libgit2, and leave
\* the repository's remotes and the remote's url and push url as they were;
\* with the other arguments in order, a string that is no url raises
\* "Invalid URL format".
C10_InvalidUrlFailsFast ==
  ( /\ pc = "done"
    /\ call.op \in {"add", "new", "url=", "push_url="}
    /\ call.url \notin ValidUrls )
  => /\ ret.kind = "raise" /\ ret.state = TAG_RAISE
     /\ ret.exc \in {InvalidUrl, NullByte, TypeError}
     /\ (call.url = UrlBad /\ call.is_repo /\ call.name # NotAName)
          => ret.exc = InvalidUrl
     /\ lib_calls = 0
     /\ repo = repo_before
     /\ remote.url = remote_before.url
     /\ remote.push_url = remote_before.push_url

\* Remote.add with a new name and a string that is no url
C10_Witness ==
  /\ pc = "done" /\ call.op = "add" /\ call.url = UrlBad
  /\ call.is_repo /\ ~HasRemote(repo, call.name) /\ call.name # NotAName
  /\ Len(repo) = 1
  /\ ret = rb_raise(InvalidUrl)

====
